---- MODULE Spec2Model ----
(***************************************************************************)
(* The process lifecycle manager of simple_naptha_mcp (run.py): the        *)
(* module globals server_instance / server_thread / keep_running, the      *)
(* operations start_server, stop_server, run and signal_handler executed   *)
(* statement by statement by caller threads, and the background threads    *)
(* that execute start_server.run_server.  And the tools of                 *)
(* MCPWebsiteFetcher (server.py): the dispatch in setup_tools.fetch_tool,  *)
(* the three tool methods and the descriptors list_tools returns.          *)
(***************************************************************************)
EXTENDS Integers, FiniteSets, Sequences, TLC

\* ------------------------------------------------------------------ bounds
\* Operations the caller threads may invoke, in total, in one behaviour.
MaxCalls == 2

\* ---------------------------------------------------------------- universe
\* Python's None, for the handles held in the module globals.
None == 0
\* Thread objects: every operation constructs at most one.
ThreadIds == 1..MaxCalls
\* "main" is the interpreter's main thread (the only one that runs signal
\* handlers); "aux" is a second thread of the embedding caller.
Callers == {"main", "aux"}
\* start_server's default port and the port the __main__ block passes.
Ports == {8000, 8001}

VARIABLES
    server_instance,  \* run.py:16  module global, None or an instance handle
    server_thread,    \* run.py:17  module global, None or a Thread handle
    keep_running,     \* run.py:18  module global
    handler,          \* TRUE once signal.signal(SIGINT, signal_handler) ran
    thr,              \* Thread objects: state, port, their server's exit flag
    pc,               \* each caller thread's position
    loc,              \* each caller thread's locals and last outcome
    ncalls,           \* operations invoked so far
    process,          \* "running" | "exiting" (sys.exit called) | "exited"
    last_done,        \* history: <<caller, operation>> that returned last
    tool_req,         \* the call_tool request handled last: name, arguments
    tool_resp,        \* what fetch_tool did with it: result or exception
    tool_listed       \* what list_tools returned last

\* The tool side of the state (server.py).
toolvars == <<tool_req, tool_resp, tool_listed>>

\* The lifecycle side of the state (run.py).
lifevars == <<server_instance, server_thread, keep_running, handler, thr, pc,
              loc, ncalls, process, last_done>>

vars == <<server_instance, server_thread, keep_running, handler, thr, pc, loc,
          ncalls, process, last_done, toolvars>>

\* A Thread object nobody has constructed yet.
\* (acked: history, the start_server call that constructed it returned True.)
NoThread == [state |-> "none", port |-> None, should_exit |-> FALSE,
             bindfail |-> FALSE, acked |-> FALSE]

\* A caller's locals before its first call.
\* op, port, spawned (the Thread this call constructed), exc (the exception
\* run() is handling), result; and the history the properties read:
\* entryThread (the live server thread when the call began), entryStarted
\* (that thread was serving and its start_server had returned), prev (the
\* operation that returned last, when this one began with no other in
\* progress), stopCalled, interrupted (the operation a signal cut short),
\* sawBindFail (the bind had failed when start_server returned).
NoCall == [op |-> "none", port |-> None, spawned |-> None,
           exc |-> "none", result |-> "none",
           entryThread |-> None, entryStarted |-> FALSE, prev |-> "none",
           stopCalled |-> FALSE, interrupted |-> "none", sawBindFail |-> FALSE]

\* threading.Thread.is_alive(): true from start() until run_server ends.
IsAlive(t) == thr[t].state \in {"starting", "serving"}

\* run.py:80, negated: the server counts as running when the global thread
\* handle is set and that thread is alive.
ServerRunning == server_thread # None /\ IsAlive(server_thread)

\* The next Thread object threading.Thread(...) constructs.
FreshThread == CHOOSE t \in ThreadIds :
                  /\ thr[t].state = "none"
                  /\ \A u \in ThreadIds : u < t => thr[u].state # "none"

Init ==
    /\ server_instance = None
    /\ server_thread = None
    /\ keep_running = TRUE
    /\ handler = FALSE
    /\ thr = [t \in ThreadIds |-> NoThread]
    /\ pc = [c \in Callers |-> "idle"]
    /\ loc = [c \in Callers |-> NoCall]
    /\ ncalls = 0
    /\ process = "running"
    /\ last_done = <<"none", "none">>
    /\ tool_req = [name |-> "none", arguments |-> <<>>]
    /\ tool_resp = [kind |-> "none"]
    /\ tool_listed = <<>>

\* A caller may begin an operation while the interpreter is not finalizing.
\* The handler is installed by the __main__ block only, where the main thread
\* is the only caller.
CanCall(c) ==
    /\ process = "running"
    /\ pc[c] = "idle"
    /\ ncalls < MaxCalls
    /\ handler => c = "main"

\* The server thread that is serving and whose start_server has returned.
ServerStarted ==
    /\ ServerRunning
    /\ thr[server_thread].state = "serving"
    /\ thr[server_thread].acked

BeginCall(c, op, p) ==
    [NoCall EXCEPT !.op = op, !.port = p,
                   !.entryThread = IF ServerRunning THEN server_thread ELSE None,
                   !.entryStarted = ServerStarted,
                   !.prev = IF \A d \in Callers : pc[d] \in {"idle", "exited"}
                            THEN last_done[2]
                            ELSE "none"]

\* History: the step returns caller c to the embedding code.
DoneBy(c) == IF pc'[c] = "idle" THEN <<c, loc[c].op>> ELSE last_done

----------------------------------------------------------------------------
\* __main__: signal.signal(signal.SIGINT, signal_handler), before the first
\* operation.
InstallHandler ==
    /\ process = "running"
    /\ pc["main"] = "idle"
    /\ ~handler
    /\ ncalls = 0
    /\ handler' = TRUE
    /\ UNCHANGED toolvars
    /\ UNCHANGED <<server_instance, server_thread, keep_running, thr, pc, loc,
                   ncalls, process, last_done>>

----------------------------------------------------------------------------
\* start_server(port)

\* The embedding caller invokes start_server(port).
CallStart(c, p) ==
    /\ CanCall(c)
    /\ pc' = [pc EXCEPT ![c] = "start_new"]
    /\ loc' = [loc EXCEPT ![c] = BeginCall(c, "start", p)]
    /\ ncalls' = ncalls + 1
    /\ UNCHANGED toolvars
    /\ UNCHANGED <<server_instance, server_thread, keep_running, handler, thr,
                   process, last_done>>

\* server_thread = threading.Thread(target=run_server); daemon = False
StartNewThread(c) ==
    /\ pc[c] = "start_new"
    /\ \E t \in ThreadIds : thr[t].state = "none"
    /\ LET t == FreshThread IN
        /\ thr' = [thr EXCEPT ![t] = [NoThread EXCEPT !.state = "created",
                                                      !.port = loc[c].port]]
        /\ server_thread' = t
        /\ loc' = [loc EXCEPT ![c].spawned = t, ![c].port = None]
    /\ pc' = [pc EXCEPT ![c] = "start_start"]
    /\ UNCHANGED toolvars
    /\ UNCHANGED <<server_instance, keep_running, handler, ncalls, process,
                   last_done>>

\* Where an exception raised inside start_server lands: run()'s except clause
\* when run() made the call, the embedding caller otherwise.
RaiseFromStart(c) ==
    IF loc[c].op = "run" THEN "run_except" ELSE "idle"

\* server_thread.start(): starts whatever Thread the global names now;
\* Thread.start() on a thread that was already started raises RuntimeError.
StartThreadStart(c) ==
    /\ pc[c] = "start_start"
    /\ LET g == server_thread IN
        IF thr[g].state = "created"
        THEN /\ thr' = [thr EXCEPT ![g].state = "starting"]
             /\ pc' = [pc EXCEPT ![c] = "start_sleep"]
             /\ loc' = loc
        ELSE /\ thr' = thr
             /\ pc' = [pc EXCEPT ![c] = RaiseFromStart(c)]
             /\ loc' = [loc EXCEPT ![c].exc =
                           IF loc[c].op = "run" THEN "RuntimeError" ELSE @,
                                   ![c].result =
                           IF loc[c].op = "run" THEN @ ELSE "raised"]
    /\ last_done' = DoneBy(c)
    /\ UNCHANGED toolvars
    /\ UNCHANGED <<server_instance, server_thread, keep_running, handler,
                   ncalls, process>>

\* What start_server returns once the grace period is over: True, always.
StartResult(t) == TRUE

\* run(): if success: ... "success" else "error".
RunResult(success) == IF success THEN "success" ELSE "error"

\* time.sleep(1); return True -- back in the caller, or in run() at line 82.
StartReturn(c) ==
    /\ pc[c] = "start_sleep"
    /\ LET t == loc[c].spawned
           success == StartResult(t)
       IN
        /\ pc' = [pc EXCEPT ![c] = "idle"]
        /\ loc' = [loc EXCEPT ![c].sawBindFail = thr[t].bindfail,
                              ![c].result =
                      IF loc[c].op = "run"
                      THEN RunResult(success)
                      ELSE IF success THEN "True" ELSE "False"]
        /\ thr' = [thr EXCEPT ![t].acked = success]
    /\ last_done' = DoneBy(c)
    /\ UNCHANGED toolvars
    /\ UNCHANGED <<server_instance, server_thread, keep_running, handler,
                   ncalls, process>>

----------------------------------------------------------------------------
\* run(module_run)

\* except Exception: KeyboardInterrupt and SystemExit derive from
\* BaseException only, so the clause does not catch them.
CaughtByRun(e) == e \in {"ValidationError", "RuntimeError"}

\* The embedding caller invokes run(module_run); AgentRunInput(**module_run)
\* and InputSchema(**inputs) raise on a malformed descriptor.
CallRun(c, p, valid) ==
    /\ CanCall(c)
    /\ pc' = [pc EXCEPT ![c] = IF valid THEN "run_guard" ELSE "run_except"]
    /\ loc' = [loc EXCEPT ![c] =
                  IF valid
                  THEN BeginCall(c, "run", p)
                  ELSE [BeginCall(c, "run", None) EXCEPT
                           !.exc = "ValidationError"]]
    /\ ncalls' = ncalls + 1
    /\ UNCHANGED toolvars
    /\ UNCHANGED <<server_instance, server_thread, keep_running, handler, thr,
                   process, last_done>>

\* Variant of RunGuard without the liveness test of line 80: run() calls
\* start_server(port) every time.
RunGuardAlwaysStarts(c) ==
    /\ pc[c] = "run_guard"
    /\ pc' = [pc EXCEPT ![c] = "start_new"]
    /\ loc' = loc
    /\ last_done' = DoneBy(c)
    /\ UNCHANGED toolvars
    /\ UNCHANGED <<server_instance, server_thread, keep_running, handler, thr,
                   ncalls, process>>

\* if not server_thread or not server_thread.is_alive(): start_server(port)
\* -- otherwise straight to the success result.
RunGuard(c) ==
    /\ pc[c] = "run_guard"
    /\ IF ~ServerRunning
       THEN /\ pc' = [pc EXCEPT ![c] = "start_new"]
            /\ loc' = loc
       ELSE /\ pc' = [pc EXCEPT ![c] = "idle"]
            /\ loc' = [loc EXCEPT ![c].result = "success"]
    /\ last_done' = DoneBy(c)
    /\ UNCHANGED toolvars
    /\ UNCHANGED <<server_instance, server_thread, keep_running, handler, thr,
                   ncalls, process>>

\* except Exception as e: logger.error(...); stop_server()
RunExcept(c) ==
    /\ pc[c] = "run_except"
    /\ CaughtByRun(loc[c].exc)
    /\ pc' = [pc EXCEPT ![c] = "stop_flag"]
    /\ loc' = [loc EXCEPT ![c].exc = "none"]
    /\ UNCHANGED toolvars
    /\ UNCHANGED <<server_instance, server_thread, keep_running, handler, thr,
                   ncalls, process, last_done>>

\* time.sleep(1) in the main thread under Python's default SIGINT handling:
\* KeyboardInterrupt leaves start_server, passes run()'s except clause
\* (CaughtByRun is false for it) and reaches the embedding caller.
SleepInterrupted ==
    /\ pc["main"] = "start_sleep"
    /\ ~handler
    /\ ~CaughtByRun("KeyboardInterrupt")
    /\ pc' = [pc EXCEPT !["main"] = "idle"]
    /\ loc' = [loc EXCEPT !["main"].result = "raised"]
    /\ last_done' = DoneBy("main")
    /\ UNCHANGED toolvars
    /\ UNCHANGED <<server_instance, server_thread, keep_running, handler, thr,
                   ncalls, process>>

----------------------------------------------------------------------------
\* stop_server()

\* The embedding caller invokes stop_server().
CallStop(c) ==
    /\ CanCall(c)
    /\ pc' = [pc EXCEPT ![c] = "stop_flag"]
    /\ loc' = [loc EXCEPT ![c] = BeginCall(c, "stop", None)]
    /\ ncalls' = ncalls + 1
    /\ UNCHANGED toolvars
    /\ UNCHANGED <<server_instance, server_thread, keep_running, handler, thr,
                   process, last_done>>

\* if server_instance: server_instance.should_exit = True
SignalExit(inst, threads) ==
    IF inst # None
    THEN [threads EXCEPT ![inst].should_exit = TRUE]
    ELSE threads

StopFlag(c) ==
    /\ pc[c] = "stop_flag"
    /\ thr' = SignalExit(server_instance, thr)
    /\ pc' = [pc EXCEPT ![c] = "stop_join"]
    /\ loc' = [loc EXCEPT ![c].stopCalled = TRUE]
    /\ UNCHANGED toolvars
    /\ UNCHANGED <<server_instance, server_thread, keep_running, handler,
                   ncalls, process, last_done>>

\* if server_thread and server_thread.is_alive(): whether stop_server joins.
StopWaits(th) == th # None /\ IsAlive(th)

\* Where stop_server returns to: the embedding caller, run()'s "raise", or
\* signal_handler's sys.exit(0).
AfterStop(c) ==
    IF loc[c].op = "signal" THEN "sys_exit" ELSE "idle"

ResultAfterStop(c) ==
    IF loc[c].op = "run" THEN "raised"
    ELSE IF loc[c].op = "stop" THEN "ok" ELSE loc[c].result

StopJoin(c) ==
    /\ pc[c] = "stop_join"
    /\ IF StopWaits(server_thread)
       THEN /\ pc' = [pc EXCEPT ![c] = "stop_joining"]
            /\ loc' = loc
       ELSE /\ pc' = [pc EXCEPT ![c] = AfterStop(c)]
            /\ loc' = [loc EXCEPT ![c].result = ResultAfterStop(c)]
    /\ last_done' = DoneBy(c)
    /\ UNCHANGED toolvars
    /\ UNCHANGED <<server_instance, server_thread, keep_running, handler, thr,
                   ncalls, process>>

\* server_thread.join(timeout=5) returns: the thread has finished, or the
\* five seconds are over with the thread still alive; either way
\* "Server thread stopped" is logged and stop_server returns.
StopJoinReturn(c) ==
    /\ pc[c] = "stop_joining"
    /\ pc' = [pc EXCEPT ![c] = AfterStop(c)]
    /\ loc' = [loc EXCEPT ![c].result = ResultAfterStop(c)]
    /\ last_done' = DoneBy(c)
    /\ UNCHANGED toolvars
    /\ UNCHANGED <<server_instance, server_thread, keep_running, handler, thr,
                   ncalls, process>>

----------------------------------------------------------------------------
\* signal_handler(sig, frame)

\* SIGINT reaches the main thread while it waits (the __main__ loop, or
\* start_server's sleep) with signal_handler installed: keep_running = False,
\* then stop_server().  The operation it interrupts is abandoned: sys.exit
\* unwinds it.
Interrupt ==
    /\ handler
    /\ process = "running"
    /\ pc["main"] \in {"idle", "start_sleep"}
    /\ keep_running' = FALSE
    /\ pc' = [pc EXCEPT !["main"] = "stop_flag"]
    /\ loc' = [loc EXCEPT !["main"].interrupted = loc["main"].op,
                          !["main"].op = "signal",
                          !["main"].stopCalled = FALSE,
                          !["main"].entryThread =
                              IF ServerRunning THEN server_thread ELSE None,
                          !["main"].entryStarted = ServerStarted]
    /\ UNCHANGED toolvars
    /\ UNCHANGED <<server_instance, server_thread, handler, thr, ncalls,
                   process, last_done>>

\* sys.exit(0): SystemExit unwinds the main thread (run()'s except clause
\* does not catch it); the interpreter then waits for every non-daemon
\* thread before the process ends.
SysExit ==
    /\ pc["main"] = "sys_exit"
    /\ ~CaughtByRun("SystemExit")
    /\ pc' = [pc EXCEPT !["main"] = "exited"]
    /\ loc' = [loc EXCEPT !["main"].result = "raised"]
    /\ process' = "exiting"
    /\ UNCHANGED toolvars
    /\ UNCHANGED <<server_instance, server_thread, keep_running, handler, thr,
                   ncalls, last_done>>

\* server_thread.daemon = False: the process ends only when no server
\* thread is alive any more.
ProcessExit ==
    /\ process = "exiting"
    /\ \A c \in Callers : pc[c] \in {"idle", "exited"}
    /\ \A t \in ThreadIds : ~IsAlive(t)
    /\ process' = "exited"
    /\ UNCHANGED toolvars
    /\ UNCHANGED <<server_instance, server_thread, keep_running, handler, thr,
                   pc, loc, ncalls, last_done>>

----------------------------------------------------------------------------
\* start_server.run_server, in the background thread

\* Variant of RunServerBinds in which run_server rebinds the module global
\* (as it would under a "global server_instance" declaration of its own).
RunServerBindsGlobal(glob, t) == t

\* server_instance = uvicorn.Server(config) inside run_server, which has no
\* global declaration of its own: the name is local to run_server and the
\* module global keeps its value.
RunServerBinds(glob, t) == glob

\* Ports on which a thread of this process is listening.
Listening == {thr[t].port : t \in {u \in ThreadIds : thr[u].state = "serving"}}

\* run_server in the background thread.  Up to serve()'s startup: the
\* listener binds, or the bind fails (port taken by this process or by
\* another one) and serve() ends the thread.  From then on serve()'s main
\* loop polls should_exit; once it is set, serve() returns and run_server
\* ends.
RunServer(t, free) ==
    /\ \/ /\ thr[t].state = "starting"
          /\ free => thr[t].port \notin Listening
          /\ server_instance' = RunServerBinds(server_instance, t)
          /\ thr' = [thr EXCEPT ![t].state = IF free THEN "serving" ELSE "dead",
                                ![t].bindfail = ~free]
       \/ /\ thr[t].state = "serving"
          /\ thr[t].should_exit
          /\ free
          /\ server_instance' = server_instance
          /\ thr' = [thr EXCEPT ![t].state = "dead"]
    /\ UNCHANGED toolvars
    /\ UNCHANGED <<server_thread, keep_running, handler, pc, loc, ncalls,
                   process, last_done>>

----------------------------------------------------------------------------
Next ==
    \/ InstallHandler
    \/ \E c \in Callers, p \in Ports : CallStart(c, p)
    \/ \E c \in Callers : StartNewThread(c)
    \/ \E c \in Callers : StartThreadStart(c)
    \/ \E c \in Callers : StartReturn(c)
    \/ \E c \in Callers, p \in Ports, valid \in BOOLEAN : CallRun(c, p, valid)
    \/ \E c \in Callers : RunGuard(c)
    \/ \E c \in Callers : RunExcept(c)
    \/ SleepInterrupted
    \/ \E c \in Callers : CallStop(c)
    \/ \E c \in Callers : StopFlag(c)
    \/ \E c \in Callers : StopJoin(c)
    \/ \E c \in Callers : StopJoinReturn(c)
    \/ Interrupt
    \/ SysExit
    \/ ProcessExit
    \/ \E t \in ThreadIds, free \in BOOLEAN : RunServer(t, free)

Spec == Init /\ [][Next]_vars

----------------------------------------------------------------------------
\* The tools of MCPWebsiteFetcher (server.py)

\* Tool names a client may send: the three the server knows and one it
\* does not.
ToolNames == {"fetch", "echo", "hello", "other"}

\* Argument keys and values a client may send.
ArgKeys == {"url", "message", "name"}
ArgValues == {"Ada", "x"}

\* The arguments dict of a request: any subset of the keys, each with a value.
ArgMaps == UNION {[S -> ArgValues] : S \in SUBSET ArgKeys}

\* What the HTTP GET of fetch_website meets: a page, an error status
\* (raise_for_status), or no connection.
NetOutcomes == {"ok", "http_error", "connect_error"}

\* The page text a successful GET returns.
PageOf(url) == "<html>" \o url \o "</html>"

\* A TextContent item.
TextContent(text) == [type |-> "text", text |-> text]

\* The outcome of a call: the content list returned by the tool method named
\* called, or the exception raised (called = "none" when no tool method ran).
Returns(content, called) ==
    [kind |-> "ok", content |-> content, exc |-> "none", message |-> "",
     called |-> called]

Raises(exc, message, called) ==
    [kind |-> "raise", content |-> <<>>, exc |-> exc, message |-> message,
     called |-> called]

fetch_website(url, net) ==
    CASE net = "ok" ->
             Returns(<<TextContent(PageOf(url))>>, "fetch_website")
      [] net = "http_error" ->
             Raises("HTTPStatusError", "", "fetch_website")
      [] net = "connect_error" ->
             Raises("ConnectError", "", "fetch_website")

echo_message(message) ==
    Returns(<<TextContent(message)>>, "echo_message")

say_hello(name) ==
    Returns(<<TextContent("Hello, " \o name \o "!")>>, "say_hello")

\* Variant of HelloName that ignores the supplied name.
HelloNameIgnored(arguments) == "World"

\* arguments.get("name", "World")
HelloName(arguments) ==
    IF "name" \in DOMAIN arguments THEN arguments["name"] ELSE "World"

\* Variant of fetch_tool whose echo branch reads arguments["message"]
\* without the membership test, so that a missing message is a KeyError.
fetch_toolUncheckedEcho(name, arguments, net) ==
    IF name = "fetch"
    THEN IF "url" \notin DOMAIN arguments
         THEN Raises("ValueError", "Missing required argument 'url'", "none")
         ELSE fetch_website(arguments["url"], net)
    ELSE IF name = "echo"
    THEN IF "message" \notin DOMAIN arguments
         THEN Raises("KeyError", "'message'", "none")
         ELSE echo_message(arguments["message"])
    ELSE IF name = "hello"
    THEN say_hello(HelloName(arguments))
    ELSE Raises("ValueError", "Unknown tool: " \o name, "none")

\* setup_tools.fetch_tool: the handler registered with call_tool.
fetch_tool(name, arguments, net) ==
    IF name = "fetch"
    THEN IF "url" \notin DOMAIN arguments
         THEN Raises("ValueError", "Missing required argument 'url'", "none")
         ELSE fetch_website(arguments["url"], net)
    ELSE IF name = "echo"
    THEN IF "message" \notin DOMAIN arguments
         THEN Raises("ValueError", "Missing required argument 'message'",
                     "none")
         ELSE echo_message(arguments["message"])
    ELSE IF name = "hello"
    THEN say_hello(HelloName(arguments))
    ELSE Raises("ValueError", "Unknown tool: " \o name, "none")

\* setup_tools.list_tools: the descriptors, with the required and the
\* declared fields of each inputSchema.
list_tools ==
    << [name |-> "fetch", required |-> <<"url">>, properties |-> {"url"}],
       [name |-> "echo", required |-> <<"message">>,
        properties |-> {"message"}],
       [name |-> "hello", required |-> <<>>, properties |-> {"name"}] >>

\* A client calls a tool; the lifecycle state is not involved.
CallTool(name, arguments, net) ==
    /\ tool_req' = [name |-> name, arguments |-> arguments]
    /\ tool_resp' = fetch_tool(name, arguments, net)
    /\ UNCHANGED tool_listed
    /\ UNCHANGED lifevars

\* A client asks for the tool list.
ListTools ==
    /\ tool_listed' = list_tools
    /\ UNCHANGED <<tool_req, tool_resp>>
    /\ UNCHANGED lifevars

ToolNext ==
    \/ \E name \in ToolNames, arguments \in ArgMaps, net \in NetOutcomes :
           CallTool(name, arguments, net)
    \/ ListTools

ToolSpec == Init /\ [][ToolNext]_vars

----------------------------------------------------------------------------
\* Properties of the lifecycle operations

\* Caller c is back in the embedding code with the outcome of operation op.
Returned(c, op) ==
    /\ pc[c] = "idle"
    /\ loc[c].op = op
    /\ loc[c].result # "none"

\* Threads whose listener is bound and serving.
Serving == {t \in ThreadIds : thr[t].state = "serving"}

\* C1: start(port) called while the server is already running (an earlier
\* start returned success, its thread is serving) fails with AlreadyRunning
\* and constructs no second background thread.
C1_SecondStartRejected ==
    \A c \in Callers :
        (loc[c].op = "start" /\ loc[c].entryStarted) =>
            /\ loc[c].spawned = None
            /\ Returned(c, "start") => loc[c].result = "AlreadyRunning"

\* C2: under every interleaving of start, stop and run, at most one server
\* instance is active in the process.
C2_AtMostOneInstance == Cardinality(Serving) <= 1

\* No operation is in progress in any caller.
Quiet == \A c \in Callers : pc[c] = "idle"

\* C3: is_running() (the global thread handle is set and alive) is false
\* before any operation, true once a start has returned success with its
\* listener serving, and false once a stop() of the running server has
\* returned (the last operation to return), whether or not its wait timed
\* out.
C3_RunningReflectsStartStop ==
    Quiet =>
        /\ last_done[2] = "none" => ~ServerRunning
        /\ \A c \in Callers :
            /\ ( /\ Returned(c, "start")
                 /\ last_done = <<c, "start">>
                 /\ loc[c].result = "True"
                 /\ thr[loc[c].spawned].state = "serving" ) => ServerRunning
            /\ ( /\ Returned(c, "stop")
                 /\ last_done = <<c, "stop">>
                 /\ loc[c].entryStarted ) => ~ServerRunning

\* C4: once stop() has returned, having been called while the server was
\* running, the instance serving in the background thread has its exit flag
\* (should_exit, which the serving loop polls) set.
C4_StopSignalsRunningInstance ==
    \A c \in Callers :
        (Returned(c, "stop") /\ loc[c].entryStarted) =>
            thr[loc[c].entryThread].should_exit

\* C5: when the bind has failed by the time start(port) returns, start
\* returns failure (and run() a result with status error) and the server is
\* left not running.
C5_BindFailureReported ==
    \A c \in Callers :
        ((Returned(c, "start") \/ Returned(c, "run")) /\ loc[c].sawBindFail) =>
            /\ loc[c].result \in {"False", "error"}
            /\ ~IsAlive(loc[c].spawned)

\* run() has raised to its caller (also when a signal handler's sys.exit
\* unwound it).
RunRaised(c) ==
    /\ pc[c] \in {"idle", "exited"}
    /\ loc[c].result = "raised"
    /\ \/ loc[c].op = "run"
       \/ loc[c].op = "signal" /\ loc[c].interrupted = "run"

\* C6: whenever run() has failed with an exception, stop() was called before
\* the exception reached the caller, and no background thread that run
\* constructed is still alive.
C6_FailedRunLeavesNoThread ==
    \A c \in Callers :
        RunRaised(c) =>
            /\ loc[c].stopCalled
            /\ loc[c].spawned # None => ~IsAlive(loc[c].spawned)

\* C7: an interrupt signal received while the server is running ends the
\* process: once signal_handler has run stop() and sys.exit(0), the thread
\* that was serving when the signal arrived has ended or has been told to
\* exit (the interpreter waits for this non-daemon thread, and a serving
\* thread ends only through its exit flag).
C7_InterruptEndsProcess ==
    (pc["main"] = "exited" /\ loc["main"].entryStarted) =>
        LET t == loc["main"].entryThread IN
            thr[t].state = "serving" => thr[t].should_exit

\* A step of stop_server made by caller c on behalf of a stop() call.
StopStep(c) ==
    /\ pc[c] \in {"stop_flag", "stop_join", "stop_joining"}
    /\ loc[c].op = "stop"
    /\ pc'[c] # pc[c]

\* The Server Run State, with the exit flags of the instances.
RunState == <<server_instance, server_thread, keep_running, thr, process>>

C18_RunningHasInstance ==
    ServerStarted => server_instance = server_thread

\* The step in which run() evaluates line 80 for caller c.
RunGuardStep(c) ==
    /\ pc[c] = "run_guard"
    /\ loc[c].op = "run"
    /\ pc'[c] # pc[c]

\* C19: run() reaching its liveness test while the server thread is alive
\* constructs no thread, leaves the Server Run State unchanged and returns
\* status success; run() goes on to start_server(port) only when the server
\* is not running.
C19_RunWhileRunningIsNoOp ==
    [][\A c \in Callers :
          RunGuardStep(c) =>
              IF ServerRunning
              THEN /\ RunState' = RunState
                   /\ pc'[c] = "idle"
                   /\ loc'[c].result = "success"
                   /\ loc'[c].spawned = None
              ELSE pc'[c] = "start_new"]_vars

\* C19 witness: a run() begun while the started server was serving has
\* returned success without constructing a thread.
C19_Witness ==
    \E c \in Callers :
        /\ Returned(c, "run")
        /\ loc[c].entryStarted
        /\ loc[c].result = "success"
        /\ loc[c].spawned = None
        /\ ServerRunning

----------------------------------------------------------------------------
\* Properties of the tools

\* The names list_tools announces.
Registered == {list_tools[i].name : i \in DOMAIN list_tools}

\* The descriptor list_tools gives for a registered name.
Descriptor(name) ==
    list_tools[CHOOSE i \in DOMAIN list_tools : list_tools[i].name = name]

\* The required fields of the called tool that the request does not carry.
MissingRequired(req) ==
    {Descriptor(req.name).required[i] :
         i \in {j \in DOMAIN Descriptor(req.name).required :
                    Descriptor(req.name).required[j]
                        \notin DOMAIN req.arguments}}

\* C15: a call naming a tool that is not registered fails with the unknown
\* tool error, a call to a registered tool that lacks a required field of
\* its schema fails with the missing argument error naming that field, and
\* in both cases no tool method is called.
C15_InvalidCallsRejected ==
    tool_req.name # "none" =>
        /\ tool_req.name \notin Registered =>
               /\ tool_resp.kind = "raise"
               /\ tool_resp.exc = "ValueError"
               /\ tool_resp.message = "Unknown tool: " \o tool_req.name
               /\ tool_resp.called = "none"
        /\ (tool_req.name \in Registered /\ MissingRequired(tool_req) # {}) =>
               /\ tool_resp.kind = "raise"
               /\ tool_resp.exc = "ValueError"
               /\ \E f \in MissingRequired(tool_req) :
                      tool_resp.message =
                          "Missing required argument '" \o f \o "'"
               /\ tool_resp.called = "none"

C15_Witness ==
    /\ tool_req.name = "echo"
    /\ "message" \notin DOMAIN tool_req.arguments
    /\ tool_resp.kind = "raise"
    /\ tool_resp.called = "none"

\* The greeting expected for each name a client may supply.
Greeting(name) ==
    CASE name = "Ada" -> "Hello, Ada!"
      [] name = "x" -> "Hello, x!"

\* C17: a call of hello returns exactly one text item, "Hello, World!" when
\* the request has no name and "Hello, <name>!" when it has one.
C17_HelloGreets ==
    tool_req.name = "hello" =>
        /\ tool_resp.kind = "ok"
        /\ Len(tool_resp.content) = 1
        /\ tool_resp.content[1].type = "text"
        /\ tool_resp.content[1].text =
               IF "name" \in DOMAIN tool_req.arguments
               THEN Greeting(tool_req.arguments["name"])
               ELSE "Hello, World!"

C17_Witness ==
    /\ tool_req.name = "hello"
    /\ "name" \notin DOMAIN tool_req.arguments
    /\ tool_resp.kind = "ok"
    /\ tool_resp.content = <<[type |-> "text", text |-> "Hello, World!"]>>

====
